---- MODULE Spec2Model ----
(***************************************************************************)
(* Model of Fcpp.h: the owning descriptor view cdesc<T,rank_,attr_>, the   *)
(* borrowing view cdesc_ptr<T,rank_,attr_>, its strided Iterator, and the  *)
(* type<T>() mapping, together with the callers in tests/cdesc_test.cc.    *)
(*                                                                         *)
(* Memory is byte addressed.  mem[a] is the value of the T object that     *)
(* starts at byte a; a write of a T object at a destroys (Clob) every      *)
(* object that starts at another byte of [a-sizeof(T)+1, a+sizeof(T)-1].   *)
(* Address 0 is the null pointer; bytes below BufBase are not mapped, a    *)
(* dereference there ends the process (pc = "crashed").  assert() is       *)
(* modelled as compiled in (NDEBUG not defined): a failing assertion ends  *)
(* the process (pc = "aborted").                                           *)
(***************************************************************************)
EXTENDS Integers, Sequences, FiniteSets, TLC

\* ---- bounds ----
MaxLen == 3          \* largest buffer length / descriptor extent
MaxVal == 2          \* element values are 0..MaxVal
StrideFactor == 2    \* foreign byte strides go up to StrideFactor*sizeof(T)
MaxMut == 1          \* operations of one run that write memory (a sort, a store)

\* ---- address space ----
NULL == 0
BufBase == 16        \* address of every array in memory
Values == 0 .. MaxVal
Pad == MaxVal + 1    \* content of bytes where no element starts
Clob == MaxVal + 2   \* content of an object partly overwritten

\* ---- element types and type codes (Fcpp.h 27-66) ----
Types == {"char", "float", "double", "complex<float>", "complex<double>",
          "int", "long", "long long", "size_t", "int8_t", "int16_t", "void*",
          "bool", "unsigned"}

\* element types of the buffers of C++ callers and of the arrays of Fortran
\* callers
BufTypes == {"int8_t", "int16_t"}
ForeignTypes == {"int8_t", "int16_t", "int", "complex<float>"}

\* type<T>() with a default that is not CFI_type_other
type_int_default(T) ==
  CASE T = "char"            -> "CFI_type_char"
    [] T = "float"           -> "CFI_type_float"
    [] T = "double"          -> "CFI_type_double"
    [] T = "complex<float>"  -> "CFI_type_float_Complex"
    [] T = "complex<double>" -> "CFI_type_double_Complex"
    [] T = "long"            -> "CFI_type_long"
    [] T = "long long"       -> "CFI_type_long_long"
    [] T = "size_t"          -> "CFI_type_size_t"
    [] T = "int8_t"          -> "CFI_type_int8_t"
    [] T = "int16_t"         -> "CFI_type_int16_t"
    [] T = "void*"           -> "CFI_type_cptr"
    [] OTHER                 -> "CFI_type_int"

type(T) ==
  CASE T = "char"            -> "CFI_type_char"
    [] T = "float"           -> "CFI_type_float"
    [] T = "double"          -> "CFI_type_double"
    [] T = "complex<float>"  -> "CFI_type_float_Complex"
    [] T = "complex<double>" -> "CFI_type_double_Complex"
    [] T = "int"             -> "CFI_type_int"
    [] T = "long"            -> "CFI_type_long"
    [] T = "long long"       -> "CFI_type_long_long"
    [] T = "size_t"          -> "CFI_type_size_t"
    [] T = "int8_t"          -> "CFI_type_int8_t"
    [] T = "int16_t"         -> "CFI_type_int16_t"
    [] T = "void*"           -> "CFI_type_cptr"
    [] OTHER                 -> "CFI_type_other"

\* sizeof(T) on an LP64 target
sizeof(T) ==
  CASE T \in {"char", "int8_t", "bool"}                       -> 1
    [] T = "int16_t"                                          -> 2
    [] T \in {"float", "int", "unsigned"}                     -> 4
    [] T = "complex<double>"                                  -> 16
    [] OTHER                                                  -> 8

\* byte strides of a Fortran array of elements of sz bytes: the element
\* size (contiguous), whole multiples (every k-th element) and the sizes of
\* enclosing structures that are half multiples (a complex<float> member
\* of a 12 byte structure)
Strides(sz) == { (sz * f) \div 2 : f \in 2 .. (2 * StrideFactor) }

Attrs == {"other", "allocatable", "pointer"}

\* ---- the descriptor CFI_cdesc_t ----
Dim(lb, ext, sm) == [lower_bound |-> lb, extent |-> ext, sm |-> sm]

\* Storage of a descriptor that was never established: every member is
\* indeterminate.  The members that are read before being written are the
\* dim[0] extent and stride.
Indeterminate ==
  { [base_addr |-> NULL, elem_len |-> 0, rank |-> 0, attribute |-> "other",
     type |-> "CFI_type_other", dim |-> << d >>] :
       d \in {Dim(0, 0, 0), Dim(0, 2, 1)} }

\* CFI_establish of ISO_Fortran_binding.h (F2018 18.5.5.5) as cdesc::cdesc
\* calls it: rank 1, one extent.  An allocatable descriptor must be
\* established with a null base address; when base_addr is null the extents
\* are ignored and dim[] is left as it was.
CFI_establish(dv, base_addr, attribute, type_, elem_len, rank, extents) ==
  IF attribute = "allocatable" /\ base_addr # NULL
  THEN [status |-> "CFI_ERROR_BASE_ADDR_NOT_NULL", dv |-> dv]
  ELSE [status |-> "CFI_SUCCESS",
        dv |-> [base_addr |-> base_addr, elem_len |-> elem_len, rank |-> rank,
                attribute |-> attribute, type |-> type_,
                dim |-> IF base_addr # NULL
                        THEN [i \in 1..rank |-> Dim(0, extents[i], elem_len)]
                        ELSE dv.dim]]

\* CFI_is_contiguous of ISO_Fortran_binding.h: the stride of dimension 0 is
\* the element length and every further stride is the span of the dimension
\* before it.
CFI_is_contiguous(dv) ==
  IF \A i \in 1..dv.rank :
       IF i = 1 THEN dv.dim[i].sm = dv.elem_len
                ELSE dv.dim[i].sm = dv.dim[i-1].sm * dv.dim[i-1].extent
  THEN 1 ELSE 0

VARIABLES
  T,        \* element type of the array in memory
  buf,      \* the C++ caller's buffer: kind, data pointer, length
  aux,      \* the data buffer an indirect comparator reads
  mem,      \* memory
  memPre,   \* memory before the last operation that writes it
  desc_,    \* cdesc::desc_, the descriptor an owning view holds
  status,   \* what CFI_establish returned
  owner,    \* "unbuilt" or "built": the owning view
  fd,       \* a descriptor supplied by a Fortran caller
  view,     \* the borrowing view: cdesc_ptr::ptr_ and its template arguments
  chk,      \* the last cdesc_ptr construction attempted
  it,       \* the Iterator of a begin()..end() loop: ptr_, end's ptr_, stride
  visited,  \* byte addresses the loop has dereferenced
  res,      \* the last operation and what it returned
  nmut,     \* operations so far that wrote memory
  pc        \* "run", "aborted" (assertion failure) or "crashed" (invalid access)

vars == << T, buf, aux, mem, memPre, desc_, status, owner, fd, view, chk,
           it, visited, res, nmut, pc >>

\* The address space: the bytes from BufBase on are mapped, as far as an
\* array of MaxLen elements of type T with the largest stride reaches.
MemSize == BufBase + (MaxLen + 1) * StrideFactor * sizeof(T)
Addr == 0 .. (MemSize - 1)
Valid(a) == a \in BufBase .. (MemSize - 1)

NoBuf == [kind |-> "none", addr |-> NULL, len |-> 0]
NoDesc == [base_addr |-> NULL, elem_len |-> 0, rank |-> 0, attribute |-> "none",
           type |-> "none", dim |-> << >>]
NoView == [ptr_ |-> "null", T |-> "none", rank_ |-> 0, attr_ |-> "none"]
NoChk == [target |-> "null", T |-> "none", tag |-> "none", rank_ |-> 0, attr_ |-> "none"]
NoIt == [active |-> FALSE, ptr_ |-> NULL, last |-> NULL, stride |-> 0]
NoRes == [op |-> "none", ok |-> FALSE, ptr |-> NULL, n |-> 0, idx |-> 0, cmp |-> "none"]
Res(op, ok, ptr, n, idx, cmp) ==
  [op |-> op, ok |-> ok, ptr |-> ptr, n |-> n, idx |-> idx, cmp |-> cmp]
NoAux == [v \in Values |-> v]
\* data buffers for the indirect comparator: descending ({3,2,1} in the
\* test) and one with equal entries
DataBufs == { [v \in Values |-> MaxVal - v], [v \in Values |-> IF v = 0 THEN 1 ELSE 0] }

BufKinds == {"pointer", "static array", "std::array", "std::vector", "std::span"}

\* The element values laid out from address p with byte stride sm.
Layout(p, n, sm, vals) ==
  [a \in Addr |-> IF \E i \in 0..(n-1) : a = p + i * sm
                  THEN vals[(a - p) \div sm] ELSE Pad]

\* A C++ caller holding a buffer (tests/cdesc_test.cc): a buffer of n
\* elements lives at BufBase; an empty buffer (a std::vector or std::span
\* that never held an element) may have a null data pointer.  The view's
\* descriptor storage is not yet established.
InitBuffer ==
  /\ T \in BufTypes
  /\ \E n \in 0..MaxLen :
       \/ buf = [kind |-> "buffer", addr |-> BufBase, len |-> n]
       \/ n = 0 /\ buf = [kind |-> "buffer", addr |-> NULL, len |-> 0]
  /\ \E vals \in [0..(MaxLen-1) -> Values] :
       mem = Layout(buf.addr, buf.len, sizeof(T), vals)
  /\ desc_ \in Indeterminate
  /\ fd = NoDesc

\* A Fortran caller passing a descriptor (tests/iota.cpp): n elements of type
\* T, sm bytes apart and holding 0, 1, 2, ..., described with some rank and
\* attribute.
InitForeign ==
  /\ T \in ForeignTypes
  /\ buf = NoBuf
  /\ desc_ = NoDesc
  /\ \E n \in 0..MaxLen, sm \in Strides(sizeof(T)),
        r \in {1, 2}, a \in {"other", "pointer"} :
       /\ fd = [base_addr |-> BufBase, elem_len |-> sizeof(T), rank |-> r,
                attribute |-> a, type |-> type(T),
                dim |-> IF r = 1 THEN << Dim(0, n, sm) >>
                                 ELSE << Dim(0, n, sm), Dim(0, 1, n * sm) >>]
       /\ mem = Layout(BufBase, n, sm, [i \in 0..(MaxLen-1) |-> i % (MaxVal + 1)])

Init ==
  /\ InitBuffer \/ InitForeign
  /\ aux = NoAux
  /\ memPre = mem
  /\ status = "none"
  /\ owner = "unbuilt"
  /\ view = NoView
  /\ chk = NoChk
  /\ it = NoIt
  /\ visited = << >>
  /\ res = NoRes
  /\ nmut = 0
  /\ pc = "run"

\* ---- the owning view cdesc<T,1,attr_> ----

\* the constructor without its check of the status
EstablishOk_unchecked(st) == TRUE

\* the assertion of line 131
EstablishOk(st) == st = "CFI_SUCCESS"

\* cdesc::cdesc(T* ptr, int n0) and the constructors from a static array,
\* std::vector, std::array and std::span, which delegate to it with the
\* buffer's data pointer and length and require attr_ == attr::other.
cdesc_ctor ==
  /\ pc = "run" /\ owner = "unbuilt" /\ buf.kind # "none"
  /\ \E k \in BufKinds, attr_ \in Attrs :
       LET r == CFI_establish(desc_, buf.addr, attr_, type(T), sizeof(T), 1,
                              << buf.len >>)
       IN /\ attr_ # "other" => k = "pointer"
          /\ buf.len = 0 => k \notin {"static array", "std::array"}
          /\ desc_' = r.dv
          /\ status' = r.status
          /\ IF EstablishOk(r.status)
             THEN owner' = "built" /\ pc' = pc
             ELSE owner' = owner /\ pc' = "aborted"
  /\ UNCHANGED << T, buf, aux, mem, memPre, fd, view, chk, it, visited, res, nmut >>

cdesc_rank == 1
cdesc_elem_len == desc_.elem_len
cdesc_extent(dim) == desc_.dim[dim + 1].extent
cdesc_is_contiguous == CFI_is_contiguous(desc_) > 0
cdesc_data == desc_.base_addr
\* &(*this)[idx]: data() + idx in units of T
cdesc_subscript(idx) == cdesc_data + idx * sizeof(T)
cdesc_begin == cdesc_subscript(0)
\* end() one element short
cdesc_end_short == cdesc_subscript(desc_.dim[1].extent - 1)
cdesc_end == cdesc_subscript(desc_.dim[1].extent)
cdesc_cbegin == cdesc_subscript(0)
\* cend() advancing by extent bytes instead of extent elements
cdesc_cend_bytes == cdesc_data + desc_.dim[1].extent
cdesc_cend == cdesc_subscript(desc_.dim[1].extent)

\* ---- the borrowing view cdesc_ptr<T,rank_,attr_> ----

\* *ptr_ for the descriptor a view points to
Target(t) == IF t = "desc_" THEN desc_ ELSE fd

\* the constructor without its check of the attribute
Matches_no_attribute(dv, Tp, rank_, attr_) ==
  /\ dv.type = type(Tp)
  /\ dv.rank = rank_

\* the three assertions of the constructor
Matches(dv, Tp, rank_, attr_) ==
  /\ dv.type = type(Tp)
  /\ dv.rank = rank_
  /\ dv.attribute = attr_

\* The view is constructed on entry to the function that receives the
\* descriptor (iota, subscript1D), before any other operation.
cdesc_ptr_ctor ==
  /\ pc = "run" /\ view = NoView /\ res = NoRes
  /\ \E t \in {"desc_", "fd"}, Tp \in Types, rank_ \in {1, 2},
        attr_ \in {"other", "pointer"} :
       /\ t = "desc_" => owner = "built"
       /\ t = "fd" => fd # NoDesc
       /\ chk' = [target |-> t, T |-> Tp, tag |-> type(Tp), rank_ |-> rank_,
                  attr_ |-> attr_]
       /\ IF Matches(Target(t), Tp, rank_, attr_)
          THEN /\ view' = [ptr_ |-> t, T |-> Tp, rank_ |-> rank_, attr_ |-> attr_]
               /\ pc' = pc
          ELSE view' = view /\ pc' = "aborted"
  /\ UNCHANGED << T, buf, aux, mem, memPre, desc_, status, owner, fd, it,
                  visited, res, nmut >>

\* ---- std::sort and std::min_element over a range of T* ----

\* operator< and the comparator of iteratorsIndirectSort, a[il] < a[ir]
Less(cmp, x, y) == IF cmp.kind = "less" THEN x < y ELSE cmp.a[x] < cmp.a[y]

\* the values *first, *(first+1), ..., *(last-1)
RangeSeq(m, first, n, sz) == [i \in 1..n |-> m[first + (i - 1) * sz]]

\* insertion of x into the sorted sequence s, moving back past every
\* element that x precedes
RECURSIVE Insert(_, _, _)
Insert(cmp, s, x) ==
  IF s = << >> THEN << x >>
  ELSE IF Less(cmp, x, s[Len(s)])
       THEN Append(Insert(cmp, SubSeq(s, 1, Len(s) - 1), x), s[Len(s)])
       ELSE Append(s, x)

RECURSIVE InsertionSort(_, _)
InsertionSort(cmp, s) ==
  IF s = << >> THEN << >>
  ELSE Insert(cmp, InsertionSort(cmp, SubSeq(s, 1, Len(s) - 1)), s[Len(s)])

\* memory after the n elements from first are replaced by s
StoreRange(m, first, n, sz, s) ==
  [a \in Addr |-> IF a >= first /\ a < first + n * sz /\ (a - first) % sz = 0
                  THEN s[(a - first) \div sz + 1] ELSE m[a]]

\* index (from 1) of the first smallest element of s
RECURSIVE MinIndex(_)
MinIndex(s) ==
  IF Len(s) = 1 THEN 1
  ELSE LET k == MinIndex(SubSeq(s, 1, Len(s) - 1))
       IN IF s[Len(s)] < s[k] THEN Len(s) ELSE k

\* std::sort(fp.begin(), fp.end()) and std::sort(fp.begin(), fp.end(), compare)
\* on an owning view; compare reads the data buffer aux through the values
\* being sorted.  A range of fewer than two elements is not dereferenced.
cdesc_sort ==
  /\ pc = "run" /\ owner = "built" /\ nmut < MaxMut
  /\ \E cmp \in {[kind |-> "less", a |-> aux]}
               \cup {[kind |-> "indirect", a |-> a] : a \in DataBufs} :
      LET first == cdesc_begin
          last == cdesc_end
          n == (last - first) \div sizeof(T)
      IN /\ aux' = cmp.a
         /\ IF n >= 2 /\ ~Valid(first)
            THEN pc' = "crashed" /\ UNCHANGED << mem, memPre, res, nmut >>
            ELSE /\ pc' = pc
                 /\ nmut' = nmut + 1
                 /\ memPre' = mem
                 /\ mem' = StoreRange(mem, first, n, sizeof(T),
                                      InsertionSort(cmp, RangeSeq(mem, first, n, sizeof(T))))
                 /\ res' = Res("sort", TRUE, first, n, 0, cmp.kind)
  /\ UNCHANGED << T, buf, desc_, status, owner, fd, view, chk, it, visited >>

\* std::min_element(fv.cbegin(), fv.cend()): last when the range is empty
cdesc_min_element ==
  /\ pc = "run" /\ owner = "built"
  /\ LET first == cdesc_cbegin
         last == cdesc_cend
         n == (last - first) \div sizeof(T)
     IN IF n = 0
        THEN res' = Res("min", TRUE, last, 0, 0, "less") /\ pc' = pc
        ELSE IF ~Valid(first)
             THEN pc' = "crashed" /\ res' = res
             ELSE /\ pc' = pc
                  /\ res' = Res("min", TRUE,
                         first + (MinIndex(RangeSeq(mem, first, n, sizeof(T))) - 1) * sizeof(T),
                         n, 0, "less")
  /\ UNCHANGED << T, buf, aux, mem, memPre, desc_, status, owner, fd, view, chk,
                  it, visited, nmut >>

\* std::span sb(fb) on an owning view: the span is built from the range,
\* with data() for its pointer and end() - begin() for its size
cdesc_to_span ==
  /\ pc = "run" /\ owner = "built"
  /\ res' = Res("span", TRUE, cdesc_data,
                (cdesc_end - cdesc_begin) \div sizeof(T), 0, "owning")
  /\ UNCHANGED << T, buf, aux, mem, memPre, desc_, status, owner, fd, view, chk,
                  it, visited, nmut, pc >>

\* ---- operations of the borrowing view ----

cdesc_ptr_base_addr == Target(view.ptr_).base_addr
\* stride<0>(), in bytes
cdesc_ptr_stride0 == Target(view.ptr_).dim[1].sm
cdesc_ptr_extent(d) == Target(view.ptr_).dim[d + 1].extent
\* is_contiguous() comparing the result of CFI_is_contiguous with >= 0
cdesc_ptr_is_contiguous_ge == CFI_is_contiguous(Target(view.ptr_)) >= 0
cdesc_ptr_is_contiguous == CFI_is_contiguous(Target(view.ptr_)) > 0

\* T* + k: the byte address k elements after p
PtrAdd(p, k) == p + k * sizeof(view.T)

\* &(*this)[idx] = base_addr() + idx*(stride<0>()/sizeof(T))
cdesc_ptr_subscript(idx) ==
  PtrAdd(cdesc_ptr_base_addr, idx * (cdesc_ptr_stride0 \div sizeof(view.T)))

\* Iterator(ptr, sm): stride(sm/sizeof(T))
Iterator(ptr, sm) == [ptr_ |-> ptr, stride |-> sm \div sizeof(view.T)]

cdesc_ptr_begin == Iterator(cdesc_ptr_base_addr, cdesc_ptr_stride0)

cdesc_ptr_end ==
  LET nbytes == cdesc_ptr_extent(0) * (cdesc_ptr_stride0 \div sizeof(view.T))
  IN Iterator(PtrAdd(cdesc_ptr_base_addr, nbytes), cdesc_ptr_stride0)

\* Iterator::operator++
Iterator_inc(i) == [i EXCEPT !.ptr_ = PtrAdd(i.ptr_, i.stride)]

\* memory after a T object with value v is stored at byte a
Store(m, a, sz, v) ==
  [x \in Addr |-> IF x = a THEN v
                  ELSE IF x > a - sz /\ x < a + sz /\ m[x] # Pad THEN Clob
                  ELSE m[x]]

\* for (it = x.begin(); it != x.end(); ++it) with *it dereferenced in each
\* turn: the iterator and the addresses dereferenced when the loop ends, or
\* when it dereferences an address that is not mapped
RECURSIVE Walk(_, _, _)
Walk(i, last, acc) ==
  IF i.ptr_ = last.ptr_ THEN [it |-> i, visited |-> acc, ok |-> TRUE]
  ELSE IF ~Valid(i.ptr_) THEN [it |-> i, visited |-> acc, ok |-> FALSE]
  ELSE Walk(Iterator_inc(i), last, Append(acc, i.ptr_))

\* a loop from begin() to end() over the borrowing view, as std::iota and a
\* range-based for run it
cdesc_ptr_loop ==
  /\ pc = "run" /\ view # NoView /\ view.rank_ = 1
  /\ LET w == Walk(cdesc_ptr_begin, cdesc_ptr_end, << >>)
     IN /\ it' = [active |-> TRUE, ptr_ |-> w.it.ptr_, last |-> cdesc_ptr_end.ptr_,
                  stride |-> w.it.stride]
        /\ visited' = w.visited
        /\ pc' = IF w.ok THEN pc ELSE "crashed"
  /\ UNCHANGED << T, buf, aux, mem, memPre, desc_, status, owner, fd, view, chk,
                  res, nmut >>

\* x[idx] = v for an index within the extent
cdesc_ptr_store ==
  /\ pc = "run" /\ view # NoView /\ view.rank_ = 1 /\ nmut < MaxMut
  /\ \E idx \in 0..(cdesc_ptr_extent(0) - 1), v \in Values :
       LET a == cdesc_ptr_subscript(idx)
       IN IF Valid(a)
          THEN /\ memPre' = mem
               /\ mem' = Store(mem, a, sizeof(view.T), v)
               /\ res' = Res("store", TRUE, a, v, idx, "none")
               /\ nmut' = nmut + 1
               /\ pc' = pc
          ELSE pc' = "crashed" /\ UNCHANGED << mem, memPre, res, nmut >>
  /\ UNCHANGED << T, buf, aux, desc_, status, owner, fd, view, chk, it, visited >>

\* data(): assert(is_contiguous()), then base_addr
cdesc_ptr_data ==
  /\ pc = "run" /\ view # NoView
  /\ IF cdesc_ptr_is_contiguous
     THEN res' = Res("data", TRUE, cdesc_ptr_base_addr, 0, 0, "none") /\ pc' = pc
     ELSE res' = Res("data", FALSE, NULL, 0, 0, "none") /\ pc' = "aborted"
  /\ UNCHANGED << T, buf, aux, mem, memPre, desc_, status, owner, fd, view, chk,
                  it, visited, nmut >>

\* operator std::span<T>(): assert(is_contiguous()), n = dim[0].extent,
\* {data(), n}
cdesc_ptr_to_span ==
  /\ pc = "run" /\ view # NoView /\ view.rank_ = 1
  /\ IF cdesc_ptr_is_contiguous
     THEN /\ res' = Res("span", TRUE, cdesc_ptr_base_addr, cdesc_ptr_extent(0), 0,
                        "borrowing")
          /\ pc' = pc
     ELSE res' = Res("span", FALSE, NULL, 0, 0, "borrowing") /\ pc' = "aborted"
  /\ UNCHANGED << T, buf, aux, mem, memPre, desc_, status, owner, fd, view, chk,
                  it, visited, nmut >>

\* ---- iota(x_, lw) of tests/iota.cpp ----

\* the values *lw of a call with a non-null lw
LwVals == {0 - MaxLen, 0 - 1}
\* the arguments lw: a null pointer, or a pointer to one of the values
LwArgs == {[null |-> TRUE, val |-> 0]} \cup {[null |-> FALSE, val |-> v] : v \in LwVals}

\* std::iota(first, last, value): *first = value; ++first; ++value; until
\* first == last.  The memory, the addresses written and the iterator when
\* the loop ends, or when it writes to an address that is not mapped.
RECURSIVE std_iota(_, _, _, _, _, _)
std_iota(first, last, value, sz, m, acc) ==
  IF first.ptr_ = last.ptr_ THEN [mem |-> m, visited |-> acc, ok |-> TRUE]
  ELSE IF ~Valid(first.ptr_) THEN [mem |-> m, visited |-> acc, ok |-> FALSE]
  ELSE std_iota(Iterator_inc(first), last, value + 1, sz,
                Store(m, first.ptr_, sz, value), Append(acc, first.ptr_))

\* std::iota(x.begin(), x.end(), s) over the view x, on the memory the call
\* found
iota_fill(s) ==
  std_iota(cdesc_ptr_begin, cdesc_ptr_end, s, sizeof(view.T), memPre, << >>)

\* void iota(CFI_cdesc_t *x_, const int *lw): the view x of type
\* cdesc_ptr<int,1> is constructed over the descriptor, then std::iota runs
\* from x.begin() to x.end() with lw ? *lw : 0.  The view and the memory
\* the call found are set first, and the fill is evaluated over them.
iota ==
  /\ pc = "run" /\ view = NoView /\ res = NoRes /\ fd # NoDesc /\ nmut < MaxMut
  /\ UNCHANGED << T, buf, aux, desc_, status, owner, fd, it >>
  /\ chk' = [target |-> "fd", T |-> "int", tag |-> type("int"), rank_ |-> 1,
             attr_ |-> "other"]
  /\ \E lw \in LwArgs :
       IF Matches(fd, "int", 1, "other")
       THEN /\ view' = [ptr_ |-> "fd", T |-> "int", rank_ |-> 1, attr_ |-> "other"]
            /\ memPre' = mem
            /\ LET s == IF lw.null THEN 0 ELSE lw.val
                   w == iota_fill(s)'
               IN /\ mem' = w.mem
                  /\ visited' = w.visited
                  /\ res' = Res("iota", w.ok, fd.base_addr, Len(w.visited), s,
                                IF lw.null THEN "null" ELSE "lw")
                  /\ nmut' = nmut + 1
                  /\ pc' = IF w.ok THEN pc ELSE "crashed"
       ELSE /\ pc' = "aborted"
            /\ UNCHANGED << view, mem, memPre, visited, res, nmut >>

Next ==
  \/ iota
  \/ cdesc_ptr_loop
  \/ cdesc_ptr_store
  \/ cdesc_ptr_data
  \/ cdesc_ptr_to_span
  \/ cdesc_ctor
  \/ cdesc_ptr_ctor
  \/ cdesc_sort
  \/ cdesc_min_element
  \/ cdesc_to_span

Spec == Init /\ [][Next]_vars

\* ---- the claims ----

\* what a buffer and a view's descriptor are, read from the state
BufElem(i) == buf.addr + i * sizeof(T)
BufVals(m) == [i \in 1..buf.len |-> m[BufElem(i - 1)]]
Count(s, v) == Cardinality({ i \in DOMAIN s : s[i] = v })
ViewDesc == Target(view.ptr_)
\* byte address of logical element i of the array a descriptor describes
ElemAddr(dv, i) == dv.base_addr + i * dv.dim[1].sm

\* C1: an owning view built over a buffer of length n has rank 1,
\* extent(0) = n, elem_len = sizeof(T), base_addr = the buffer's address,
\* and is contiguous.
Claim_C1 ==
  owner = "built" =>
    /\ cdesc_rank = 1
    /\ cdesc_extent(0) = buf.len
    /\ cdesc_elem_len = sizeof(T)
    /\ desc_.base_addr = buf.addr
    /\ cdesc_is_contiguous

\* C2: a begin()..end() loop over a borrowed rank-1 descriptor visits
\* exactly extent(0) elements, the i-th at byte address base + i*sm.
Claim_C2 ==
  (pc = "run" /\ it.active /\ it.ptr_ = it.last /\ ViewDesc.base_addr # NULL) =>
    visited = [i \in 1..ViewDesc.dim[1].extent |-> ElemAddr(ViewDesc, i - 1)]

\* a descriptor that differs from what a view expects
Mismatch(dv, tag, rank_, attr_) ==
  dv.type # tag \/ dv.rank # rank_ \/ dv.attribute # attr_

\* C3: constructing a borrowing view from a descriptor whose type tag, rank
\* or attribute differs from the expected one ends in an assertion failure;
\* no view exists, and no accessor has run, over a mismatched descriptor.
Thm_C3 ==
  /\ (chk # NoChk /\ Mismatch(Target(chk.target), chk.tag, chk.rank_, chk.attr_))
       => (pc = "aborted" /\ view = NoView)
  /\ (view # NoView \/ it.active \/ res.op \in {"store", "data"} \/ res.cmp = "borrowing")
       => (view # NoView /\ chk.T = view.T
           /\ ~Mismatch(ViewDesc, chk.tag, view.rank_, view.attr_))
Wit_C3 ==
  /\ chk # NoChk /\ pc = "aborted" /\ view = NoView
  /\ Target(chk.target).type = chk.tag
  /\ Target(chk.target).rank = chk.rank_
  /\ Target(chk.target).attribute # chk.attr_

\* C4: data() returns the base pointer only on a contiguous descriptor; on a
\* non-contiguous one it ends in an assertion failure and returns nothing,
\* while begin()/end() iteration and operator[] stay available there.
Thm_C4 ==
  /\ res.op = "data" =>
       IF CFI_is_contiguous(ViewDesc) = 1
       THEN res.ok /\ res.ptr = ViewDesc.base_addr
       ELSE ~res.ok /\ res.ptr = NULL /\ pc = "aborted"
  /\ (pc = "run" /\ view # NoView /\ view.rank_ = 1 /\ CFI_is_contiguous(ViewDesc) = 0)
       => /\ ENABLED cdesc_ptr_loop
          /\ (nmut < MaxMut /\ ViewDesc.dim[1].extent > 0) => ENABLED cdesc_ptr_store
Wit_C4 ==
  /\ res.op = "data" /\ ~res.ok /\ pc = "aborted"
  /\ view.ptr_ = "fd" /\ fd.dim[1].sm > fd.elem_len
  /\ Len(visited) = fd.dim[1].extent /\ Len(visited) > 1

\* C5: a view built from a buffer with address p and length n converts back
\* to a span with data() = p and size() = n.
Claim_C5 ==
  (res.op = "span" /\ res.ok /\ buf.kind # "none") =>
    (res.ptr = buf.addr /\ res.n = buf.len)

\* C6: sorting [begin(), end()) of an owning view, by operator< or by a
\* comparator reading a second buffer, leaves the buffer a permutation of
\* its former values in the comparator's order, at the same address, and
\* writes nothing outside the first extent(0) elements.
Thm_C6 ==
  res.op = "sort" =>
    LET cmp == [kind |-> res.cmp, a |-> aux]
        old == BufVals(memPre)
        new == BufVals(mem)
    IN /\ \A v \in Values \cup {Pad, Clob} : Count(new, v) = Count(old, v)
       /\ \A i, j \in 1..buf.len : i < j => ~Less(cmp, new[j], new[i])
       /\ desc_.base_addr = buf.addr
       /\ \A a \in Addr :
            (~\E i \in 0..(desc_.dim[1].extent - 1) : a = BufElem(i))
              => mem[a] = memPre[a]
Wit_C6 ==
  /\ res.op = "sort" /\ res.cmp = "indirect" /\ buf.len = 3
  /\ BufVals(memPre) = << 0, 1, 2 >>
  /\ BufVals(mem) = << 2, 1, 0 >>

\* C7: over a non-empty buffer, min_element over [cbegin(), cend()) returns
\* the address of the first smallest element, &view[k].
Thm_C7 ==
  (res.op = "min" /\ buf.len > 0) =>
    \E k \in 0..(buf.len - 1) :
      /\ res.ptr = BufElem(k)
      /\ res.ptr = cdesc_subscript(k)
      /\ \A j \in 0..(buf.len - 1) : mem[BufElem(k)] <= mem[BufElem(j)]
      /\ \A j \in 0..(k - 1) : mem[BufElem(k)] < mem[BufElem(j)]
Wit_C7 ==
  /\ res.op = "min" /\ buf.len = 3
  /\ BufVals(mem) = << 2, 1, 0 >>
  /\ res.ptr = BufElem(2)

\* C8: when CFI_establish returns a status other than CFI_SUCCESS the
\* construction ends in an assertion failure, and an owning view exists
\* only after a successful establishment.
Thm_C8 ==
  /\ status \notin {"none", "CFI_SUCCESS"} => (pc = "aborted" /\ owner = "unbuilt")
  /\ owner = "built" => status = "CFI_SUCCESS"
Wit_C8 ==
  status = "CFI_ERROR_BASE_ADDR_NOT_NULL" /\ pc = "aborted" /\ owner = "unbuilt"

\* the element types the claim lists as supported
SupportedTypes ==
  {"char", "float", "double", "complex<float>", "complex<double>", "int",
   "long", "long long", "size_t", "int8_t", "int16_t", "void*"}

\* C9: type<T>() maps each of the twelve supported element types to a type
\* code of its own that is not CFI_type_other, and every other element type
\* to CFI_type_other.
Thm_C9 ==
  /\ chk # NoChk =>
       IF chk.T \in SupportedTypes
       THEN /\ chk.tag # "CFI_type_other"
            /\ \A U \in SupportedTypes \ {chk.T} : type(U) # chk.tag
       ELSE chk.tag = "CFI_type_other"
  /\ owner = "built" => (desc_.type = "CFI_type_other" <=> T \notin SupportedTypes)
Wit_C9 ==
  chk.T = "bool" /\ chk.tag = "CFI_type_other" /\ pc = "aborted"

\* the iterator from begin() after k increments
RECURSIVE IterAfter(_)
IterAfter(k) == IF k = 0 THEN cdesc_ptr_begin ELSE Iterator_inc(IterAfter(k - 1))

\* C10: for i within the extent, x[i] of a borrowed rank-1 view is the
\* element base + i*(stride/sizeof(T)), the one the iterator from begin()
\* reaches after i increments; it reads the value of element i of the
\* underlying array and a store through it changes that element and no
\* other.
Claim_C10 ==
  (res.op = "store" /\ ViewDesc.base_addr # NULL) =>
    LET dv == ViewDesc
        sz == sizeof(view.T)
    IN /\ res.ptr = dv.base_addr + res.idx * (dv.dim[1].sm \div sz) * sz
       /\ res.ptr = IterAfter(res.idx).ptr_
       /\ memPre[res.ptr] = memPre[ElemAddr(dv, res.idx)]
       /\ mem[ElemAddr(dv, res.idx)] = res.n
       /\ \A j \in 0..(dv.dim[1].extent - 1) :
            j # res.idx => mem[ElemAddr(dv, j)] = memPre[ElemAddr(dv, j)]

\* C11: iota(x_, lw) on a rank-1 int descriptor with extent n returns after
\* it wrote s + i into element i of the array the descriptor describes, the
\* one at base_addr + i*sm, for every i in 0..n-1, with s = *lw for a
\* non-null lw and s = 0 for a null lw; every byte that is not the start of
\* one of these elements holds what it held before the call, and for n = 0
\* the memory is the memory before the call.  (No action writes fd, so the
\* descriptor is left as it was in every behaviour.)
Claim_C11 ==
  res.op = "iota" =>
    LET n == fd.dim[1].extent
        s == res.idx
    IN /\ res.ok /\ pc = "run"
       /\ res.cmp = "null" => s = 0
       /\ \A i \in 0..(n - 1) : mem[ElemAddr(fd, i)] = s + i
       /\ \A a \in Addr :
            (\A i \in 0..(n - 1) : a # ElemAddr(fd, i)) => mem[a] = memPre[a]
       /\ n = 0 => mem = memPre

====
